---------------------------- MODULE Spec2Model ----------------------------
(***************************************************************************)
(* The team-synchronisation action of .github/actions/org-management       *)
(* (src/main.ts), as a state machine: one run of run() against the remote  *)
(* platform's state, one step per awaited call.                            *)
(*                                                                         *)
(* Strings the code only compares (logins, names, permissions) are TLA+    *)
(* strings.  Repository names and rule patterns, which the code takes      *)
(* apart (endsWith, slice, startsWith), are sequences of one-character     *)
(* strings: "a*" is <<"a", "*">>.                                          *)
(*                                                                         *)
(* The remote platform is modelled at the interface of its client: a team  *)
(* with its attributes, its member set and its grant list, and the         *)
(* organisation's repository list.  Every remote call either succeeds or   *)
(* throws.  A list call that the code does not hand to octokit.paginate    *)
(* returns one page only.  The calls that take team_slug address the team  *)
(* of the handle they are given.                                           *)
(***************************************************************************)
EXTENDS Integers, Sequences, FiniteSets, TLC

(***************************************************************************)
(* Bounds of the model.                                                    *)
(***************************************************************************)
\* longest configured member list
MaxMembers == 2
\* longest rule list of a document
MaxRules == 2
\* items on one page of an unpaginated list call (the platform's default
\* page size, scaled down to the size of the model)
PerPage == 2
\* longest repository name or pattern of the exhaustive matching runs
MaxLen == 3
\* invocations of the action in one behaviour
MaxRuns == 2
\* documents in the configuration directory
MaxDocs == 2

(***************************************************************************)
(* Values.                                                                 *)
(***************************************************************************)
\* a property the document omits (JavaScript undefined)
Undefined == "undefined"
\* the description of a remote team that has none
NoDescription == ""

\* identity strings, in the order the remote lists them
IdentityOrder == <<"a", "b", "c">>
Identities == {IdentityOrder[n] : n \in DOMAIN IdentityOrder}

\* the remote's listing with an identity that differs from "a" in case only
ListingOrder == IdentityOrder \o <<"A">>

Permissions == {"pull", "admin"}

\* the characters of the exhaustive matching runs
Alphabet == {"a", "1", "*"}

\* the repositories of the organisation in the reconciliation runs
RepoOrder == << <<"a">>, <<"a", "b">>, <<"1">> >>
\* the rule patterns of the reconciliation runs
RulePatterns == { <<"*">>, <<"a", "*">>, <<"a">>, <<"1">> }

\* what a failing call throws: an Error carrying status 404, another Error,
\* or a value that is no Error
Thrown == {"Error404", "Error", "NonError"}

Range(s) == {s[n] : n \in DOMAIN s}
SeqsUpTo(S, n) == UNION {[1..k -> S] : k \in 0..n}
Min(a, b) == IF a < b THEN a ELSE b
Front(s) == SubSeq(s, 1, Len(s) - 1)

\* Array.prototype.includes
Includes(array, x) == \E n \in DOMAIN array : array[n] = x

(***************************************************************************)
(* String operations of matchRepoPattern.                                  *)
(***************************************************************************)
\* String.prototype.endsWith, for a one-character argument
EndsWith(s, c) == Len(s) > 0 /\ s[Len(s)] = c

\* String.prototype.startsWith
StartsWith(s, prefix) ==
    Len(prefix) <= Len(s) /\ SubSeq(s, 1, Len(prefix)) = prefix

\* pattern.slice(0, -1)
SliceLast(s) == SubSeq(s, 1, Len(s) - 1)

\* matchRepoPattern with includes in the place of startsWith
MatchIncludes(repoName, pattern) ==
    IF pattern = <<"*">> THEN TRUE
    ELSE IF EndsWith(pattern, "*")
         THEN \E n \in 0..Len(repoName) :
                  StartsWith(SubSeq(repoName, n + 1, Len(repoName)),
                             SliceLast(pattern))
         ELSE repoName = pattern

matchRepoPattern(repoName, pattern) ==
    IF pattern = <<"*">> THEN TRUE
    ELSE IF EndsWith(pattern, "*")
         THEN StartsWith(repoName, SliceLast(pattern))
         ELSE repoName = pattern

(***************************************************************************)
(* Object.entries(configRepos).  The document declares its rules in some   *)
(* order (a sequence of distinct keys); JSON.parse builds an object, and   *)
(* Object.entries enumerates an object's integer-like keys first, in       *)
(* ascending numeric order, then its other keys in insertion order.        *)
(***************************************************************************)
Digits == <<"0", "1", "2", "3", "4", "5", "6", "7", "8", "9">>
IsDigit(c) == Includes(Digits, c)
DigitVal(c) == (CHOOSE n \in DOMAIN Digits : Digits[n] = c) - 1

RECURSIVE NumVal(_)
NumVal(key) ==
    IF key = <<>> THEN 0
    ELSE 10 * NumVal(Front(key)) + DigitVal(key[Len(key)])

\* a canonical array index: decimal digits without a leading zero (keys of
\* ten digits or more, where the 2^32 - 2 limit matters, are beyond MaxLen)
IsArrayIndex(key) ==
    /\ Len(key) > 0
    /\ \A n \in DOMAIN key : IsDigit(key[n])
    /\ (key[1] # "0" \/ Len(key) = 1)

RECURSIVE AscendingIndexEntries(_)
AscendingIndexEntries(S) ==
    IF S = {} THEN <<>>
    ELSE LET first == CHOOSE e \in S :
                          \A f \in S : NumVal(e.pattern) <= NumVal(f.pattern)
         IN  <<first>> \o AscendingIndexEntries(S \ {first})

ObjectEntries(declared) ==
    AscendingIndexEntries({e \in Range(declared) : IsArrayIndex(e.pattern)})
        \o SelectSeq(declared, LAMBDA e : ~IsArrayIndex(e.pattern))

(***************************************************************************)
(* The rule loop of syncTeamRepositories: the first entry whose pattern    *)
(* matches decides, and the loop breaks.                                   *)
(***************************************************************************)
RECURSIVE RuleLoop(_, _, _)
RuleLoop(name, entries, n) ==
    IF n > Len(entries)
    THEN [shouldHaveAccess |-> FALSE, permission |-> Undefined]
    ELSE IF matchRepoPattern(name, entries[n].pattern)
         THEN [shouldHaveAccess |-> TRUE, permission |-> entries[n].permission]
         ELSE RuleLoop(name, entries, n + 1)

\* the rule loop without its break: the last matching entry decides
RECURSIVE RuleLoopLastMatch(_, _, _)
RuleLoopLastMatch(name, entries, n) ==
    IF n > Len(entries)
    THEN [shouldHaveAccess |-> FALSE, permission |-> Undefined]
    ELSE LET rest == RuleLoopLastMatch(name, entries, n + 1)
         IN  IF rest.shouldHaveAccess THEN rest
             ELSE IF matchRepoPattern(name, entries[n].pattern)
                  THEN [shouldHaveAccess |-> TRUE,
                        permission |-> entries[n].permission]
                  ELSE rest

RepoAccessLastMatch(name, configRepos) ==
    RuleLoopLastMatch(name, ObjectEntries(configRepos), 1)

RepoAccess(name, configRepos) == RuleLoop(name, ObjectEntries(configRepos), 1)

(***************************************************************************)
(* State.                                                                  *)
(***************************************************************************)
VARIABLES
    \* inputs of the action
    config,             \* the document config-path names (TeamConfig)
    configPath,         \* the config-path input: a directory or one file
    numDocs,            \* documents in the configuration directory
    \* the remote platform
    team,               \* the team the document's slug names
    liveMembers,        \* its members
    grants,             \* its repository grants, in listing order
    orgRepos,           \* the organisation's repositories, in listing order
    \* run()
    pc,                 \* the call the run awaits next
    teamId,             \* team.id of syncTeam
    currentMemberLogins,
    allRepos,
    currentRepoNames,
    idx,                \* position of the for-of loop under way
    repoName,           \* locals of the last repository iteration
    shouldHaveAccess,
    permission,
    setFailed,          \* core.setFailed was called
    resultOutput,       \* core.setOutput('result', ...) was called
    \* observation
    calls,              \* remote calls of this run, in order
    warnings,           \* core.warning lines of this run
    attempted,          \* documents this run began to process
    before,             \* the remote state when this run began
    runs,               \* invocations so far
    \* the compiled build and a second run
    dist,               \* syncTeamMembers of dist/main.js, run beside the
                        \* source's on the same responses
    other               \* a run under way at the same time, suspended

vars == <<config, configPath, numDocs, team, liveMembers, grants, orgRepos,
          pc, teamId, currentMemberLogins, allRepos, currentRepoNames, idx,
          repoName, shouldHaveAccess, permission, setFailed, resultOutput,
          calls, warnings, attempted, before, runs, dist, other>>

inputs == <<config, configPath, numDocs>>
memberLocals == <<currentMemberLogins>>
repoLocals == <<allRepos, currentRepoNames, repoName, shouldHaveAccess,
                permission>>
observed == <<before, runs>>

(***************************************************************************)
(* The remote platform.                                                    *)
(***************************************************************************)
NoTeam == [exists |-> FALSE, id |-> 0, name |-> "",
           description |-> NoDescription, privacy |-> ""]

\* one page of a list call
FirstPage(list) == SubSeq(list, 1, Min(Len(list), PerPage))

\* the members the remote lists for the team
ListMembers == SelectSeq(ListingOrder, LAMBDA m : m \in liveMembers)

GrantNames(g) == [n \in DOMAIN g |-> g[n].repo]
HasGrant(g, repo) == \E n \in DOMAIN g : g[n].repo = repo
GrantOf(g, repo) == g[CHOOSE n \in DOMAIN g : g[n].repo = repo].permission

\* the remote's effect of addOrUpdateRepoPermissionsInOrg
AddOrUpdateGrant(g, repo, perm) ==
    IF HasGrant(g, repo)
    THEN [n \in DOMAIN g |->
             IF g[n].repo = repo THEN [repo |-> repo, permission |-> perm]
             ELSE g[n]]
    ELSE Append(g, [repo |-> repo, permission |-> perm])

\* the remote's effect of removeRepoInOrg
RemoveGrant(g, repo) == SelectSeq(g, LAMBDA e : e.repo # repo)

\* a logged remote call; result is "ok", "NotFound" (the lookup answered
\* with status 404) or "failed" (the call threw)
Call(op, user, repo, perm, result) ==
    [op |-> op, user |-> user, repo |-> repo, permission |-> perm,
     result |-> result]

Log(call) == calls' = Append(calls, call)

Failed(call) == call.result = "failed"
NoFailedCall == \A n \in DOMAIN calls : ~Failed(calls[n])

(***************************************************************************)
(* run(), lines 33-51, and its collaborators readConfig and validateConfig *)
(***************************************************************************)
IsError(error) == error \in {"Error404", "Error"}

\* the catch block of run(): setFailed for an Error, nothing otherwise
RunCatch(error) ==
    /\ pc' = "done"
    /\ setFailed' = IsError(error)
    /\ UNCHANGED resultOutput

\* the schema's required properties and enums
ValidConfig(c) ==
    /\ c.name # Undefined
    /\ c.slug # Undefined
    /\ c.privacy \in {Undefined, "secret", "closed"}
    /\ \A n \in DOMAIN c.repositories :
           c.repositories[n].permission
               \in {"pull", "push", "admin", "maintain", "triage"}

\* fs.promises.readFile of config-path and JSON.parse: a directory cannot be
\* read as a file; a file may be unreadable or hold no JSON
ReadConfig ==
    /\ pc = "readConfig"
    /\ attempted' = IF configPath.isDir THEN {} ELSE {configPath.file}
    /\ \/ /\ ~configPath.isDir
          /\ pc' = "validateConfig"
          /\ UNCHANGED <<setFailed, resultOutput>>
       \/ RunCatch("Error")
    /\ UNCHANGED <<inputs, team, liveMembers, grants, orgRepos, teamId,
                   memberLocals, repoLocals, idx, calls, warnings, observed,
                   dist, other>>

\* validateConfig, then the entry of syncTeam
ValidateConfig ==
    /\ pc = "validateConfig"
    /\ IF ValidConfig(config)
       THEN /\ pc' = "getByName"
            /\ UNCHANGED <<setFailed, resultOutput>>
       ELSE RunCatch("Error")
    /\ UNCHANGED <<inputs, team, liveMembers, grants, orgRepos, teamId,
                   memberLocals, repoLocals, idx, calls, warnings, attempted,
                   observed,
                   dist, other>>

(***************************************************************************)
(* createOrUpdateTeam, lines 79-113.  One try block holds the lookup and   *)
(* the update; its catch creates the team when the error caught carries    *)
(* status 404 and rethrows anything else.                                  *)
(***************************************************************************)
\* privacy: config.privacy || 'closed'
PrivacyOrDefault(c) == IF c.privacy = Undefined THEN "closed" ELSE c.privacy

\* a catch block that takes every error for "team doesn't exist"
UpsertCatchAny(error) ==
    /\ pc' = "create"
    /\ UNCHANGED <<setFailed, resultOutput>>

\* the catch block of createOrUpdateTeam
UpsertCatch(error) ==
    IF error = "Error404"
    THEN /\ pc' = "create"
         /\ UNCHANGED <<setFailed, resultOutput>>
    ELSE RunCatch(error)

GetByName ==
    /\ pc = "getByName"
    /\ \/ /\ team.exists
          /\ Log(Call("getByName", "", <<>>, "", "ok"))
          /\ pc' = "updateInOrg"
          /\ UNCHANGED <<setFailed, resultOutput>>
       \/ /\ ~team.exists
          /\ Log(Call("getByName", "", <<>>, "", "NotFound"))
          /\ UpsertCatch("Error404")
       \/ \E error \in Thrown :
              /\ Log(Call("getByName", "", <<>>, "",
                          IF error = "Error404" THEN "NotFound"
                          ELSE "failed"))
              /\ UpsertCatch(error)
    /\ UNCHANGED <<inputs, team, liveMembers, grants, orgRepos, teamId,
                   memberLocals, repoLocals, idx, warnings, attempted, observed,
                   dist, other>>

\* the remote's effect of updateInOrg: a property the request omits (one
\* that is undefined in the call) keeps its value
UpdatedTeam(t, c) ==
    [t EXCEPT !.name = c.name,
              !.description =
                  IF c.description = Undefined THEN @ ELSE c.description,
              !.privacy = PrivacyOrDefault(c)]

UpdateInOrg ==
    /\ pc = "updateInOrg"
    /\ \/ /\ Log(Call("updateInOrg", "", <<>>, "", "ok"))
          /\ team' = UpdatedTeam(team, config)
          /\ teamId' = team.id
          /\ pc' = "listMembersInOrg"
          /\ UNCHANGED <<setFailed, resultOutput>>
       \/ \E error \in Thrown :
              /\ Log(Call("updateInOrg", "", <<>>, "", "failed"))
              /\ UpsertCatch(error)
              /\ UNCHANGED <<team, teamId>>
    /\ UNCHANGED <<inputs, liveMembers, grants, orgRepos, memberLocals,
                   repoLocals, idx, warnings, attempted, observed,
                   dist, other>>

\* the remote's effect of create: a new team, without members or grants
CreatedTeam(c) ==
    [exists |-> TRUE, id |-> 2, name |-> c.name,
     description |->
         IF c.description = Undefined THEN NoDescription ELSE c.description,
     privacy |-> PrivacyOrDefault(c)]

\* the remote refuses to create a team that exists
CreateTeam ==
    /\ pc = "create"
    /\ \/ /\ ~team.exists
          /\ Log(Call("create", "", <<>>, "", "ok"))
          /\ team' = CreatedTeam(config)
          /\ teamId' = CreatedTeam(config).id
          /\ pc' = "listMembersInOrg"
          /\ UNCHANGED <<setFailed, resultOutput>>
       \/ \E error \in Thrown :
              /\ Log(Call("create", "", <<>>, "", "failed"))
              /\ RunCatch(error)
              /\ UNCHANGED <<team, teamId>>
    /\ UNCHANGED <<inputs, liveMembers, grants, orgRepos, memberLocals,
                   repoLocals, idx, warnings, attempted, observed,
                   dist, other>>

(***************************************************************************)
(* syncTeamMembers of the compiled build, dist/main.js lines 122-151: the  *)
(* same list call and the same two loops, without any try/catch.  It is    *)
(* run beside the source's syncTeamMembers: the same document, the same    *)
(* list response, and for each call the result the source's call got.      *)
(***************************************************************************)
DistIdle == [pc |-> "idle", calls |-> <<>>]

\* an awaited call of the compiled build: a rejection leaves the function
DistAwait(d, call) ==
    [pc |-> IF Failed(call) THEN "thrown" ELSE d.pc,
     calls |-> Append(d.calls, call)]

\* lines 124-128
DistList(d, result) ==
    DistAwait([d EXCEPT !.pc = "add"],
              Call("listMembersInOrg", "", <<>>, "", result))

\* lines 130-139, one iteration
DistAdd(d, member, logins, result) ==
    IF d.pc = "add" /\ ~Includes(logins, member)
    THEN DistAwait(d, Call("addOrUpdateMembershipForUserInOrg", member,
                           <<>>, "", result))
    ELSE d

\* lines 141-150, one iteration
DistRemove(d, member, configMembers, result) ==
    IF d.pc = "remove" /\ ~Includes(configMembers, member)
    THEN DistAwait(d, Call("removeMembershipForUserInOrg", member, <<>>,
                           "", result))
    ELSE d

\* the end of a loop of the compiled build
DistLoopEnd(d, from, to) == IF d.pc = from THEN [d EXCEPT !.pc = to] ELSE d

(***************************************************************************)
(* syncTeamMembers, lines 115-163.  The list call is not paginated.  Each  *)
(* add and each remove has a try/catch of its own, which warns and goes    *)
(* on; the outer catch logs and rethrows a failure of the list call.       *)
(***************************************************************************)
ListMembersInOrg ==
    /\ pc = "listMembersInOrg"
    /\ \/ /\ Log(Call("listMembersInOrg", "", <<>>, "", "ok"))
          /\ currentMemberLogins' = FirstPage(ListMembers)
          /\ dist' = DistList(dist, "ok")
          /\ idx' = 1
          /\ pc' = "addMembers"
          /\ UNCHANGED <<setFailed, resultOutput>>
       \/ \E error \in Thrown :
              /\ Log(Call("listMembersInOrg", "", <<>>, "", "failed"))
              /\ RunCatch(error)
              /\ dist' = DistList(dist, "failed")
              /\ UNCHANGED <<currentMemberLogins, idx>>
    /\ UNCHANGED <<inputs, team, liveMembers, grants, orgRepos, teamId,
                   repoLocals, warnings, attempted, observed,
                   other>>

\* the loop over configMembers without the inner try/catch, as in the
\* compiled dist/main.js, lines 130-139: a failed add ends the run
AddMemberAbort ==
    /\ pc = "addMembers"
    /\ idx <= Len(config.members)
    /\ LET member == config.members[idx] IN
       \/ /\ Includes(currentMemberLogins, member)
          /\ idx' = idx + 1
          /\ UNCHANGED <<liveMembers, calls, warnings, pc, setFailed>>
       \/ /\ ~Includes(currentMemberLogins, member)
          /\ Log(Call("addOrUpdateMembershipForUserInOrg", member, <<>>,
                      "", "ok"))
          /\ liveMembers' = liveMembers \cup {member}
          /\ idx' = idx + 1
          /\ UNCHANGED <<warnings, pc, setFailed>>
       \/ /\ ~Includes(currentMemberLogins, member)
          /\ \E error \in Thrown :
                 /\ Log(Call("addOrUpdateMembershipForUserInOrg", member,
                             <<>>, "", "failed"))
                 /\ RunCatch(error)
          /\ UNCHANGED <<liveMembers, warnings, idx>>
    /\ UNCHANGED <<inputs, team, grants, orgRepos, teamId, memberLocals,
                   repoLocals, resultOutput, attempted, observed,
                   dist, other>>

\* one loop for both directions: iteration idx removes the fetched member
\* at idx when it is not configured, then adds the configured member at idx
AddMemberInterleaved ==
    /\ pc = "addMembers"
    /\ idx <= Len(config.members)
    /\ LET member == config.members[idx]
           stale == IF /\ idx <= Len(currentMemberLogins)
                       /\ ~Includes(config.members, currentMemberLogins[idx])
                    THEN <<currentMemberLogins[idx]>>
                    ELSE <<>>
           new == IF Includes(currentMemberLogins, member) THEN <<>>
                  ELSE <<member>>
       IN
       /\ calls' = calls
              \o [n \in DOMAIN stale |->
                     Call("removeMembershipForUserInOrg", stale[n], <<>>,
                          "", "ok")]
              \o [n \in DOMAIN new |->
                     Call("addOrUpdateMembershipForUserInOrg", new[n], <<>>,
                          "", "ok")]
       /\ liveMembers' =
              (liveMembers \ {stale[n] : n \in DOMAIN stale})
                  \cup {new[n] : n \in DOMAIN new}
    /\ idx' = idx + 1
    /\ UNCHANGED <<inputs, team, grants, orgRepos, pc, teamId, memberLocals,
                   repoLocals, setFailed, resultOutput, warnings, attempted,
                   observed,
                   dist, other>>

\* the loop over configMembers with logins compared after lower-casing
Lower(login) == IF login = "A" THEN "a" ELSE login
AddMemberIgnoreCase ==
    /\ pc = "addMembers"
    /\ idx <= Len(config.members)
    /\ LET member == config.members[idx]
           known == \E n \in DOMAIN currentMemberLogins :
                        Lower(currentMemberLogins[n]) = Lower(member)
       IN
       \/ /\ known
          /\ UNCHANGED <<liveMembers, calls, warnings>>
       \/ /\ ~known
          /\ Log(Call("addOrUpdateMembershipForUserInOrg", member, <<>>,
                      "", "ok"))
          /\ liveMembers' = liveMembers \cup {member}
          /\ UNCHANGED warnings
       \/ /\ ~known
          /\ \E error \in Thrown :
                 Log(Call("addOrUpdateMembershipForUserInOrg", member,
                          <<>>, "", "failed"))
          /\ warnings' = Append(warnings, <<"add", member>>)
          /\ UNCHANGED liveMembers
    /\ idx' = idx + 1
    /\ UNCHANGED <<inputs, team, grants, orgRepos, pc, teamId, memberLocals,
                   repoLocals, setFailed, resultOutput, attempted, observed,
                   dist, other>>

\* one iteration of the loop over configMembers, lines 129-142
AddMember ==
    /\ pc = "addMembers"
    /\ idx <= Len(config.members)
    /\ LET member == config.members[idx] IN
       \/ /\ Includes(currentMemberLogins, member)
          /\ UNCHANGED <<liveMembers, calls, warnings, dist>>
       \/ /\ ~Includes(currentMemberLogins, member)
          /\ Log(Call("addOrUpdateMembershipForUserInOrg", member, <<>>,
                      "", "ok"))
          /\ liveMembers' = liveMembers \cup {member}
          /\ dist' = DistAdd(dist, member, currentMemberLogins, "ok")
          /\ UNCHANGED warnings
       \/ /\ ~Includes(currentMemberLogins, member)
          /\ \E error \in Thrown :
                 Log(Call("addOrUpdateMembershipForUserInOrg", member,
                          <<>>, "", "failed"))
          /\ warnings' = Append(warnings, <<"add", member>>)
          /\ dist' = DistAdd(dist, member, currentMemberLogins, "failed")
          /\ UNCHANGED liveMembers
    /\ idx' = idx + 1
    /\ UNCHANGED <<inputs, team, grants, orgRepos, pc, teamId, memberLocals,
                   repoLocals, setFailed, resultOutput, attempted, observed,
                   other>>

\* syncTeamMembers returning after the loop over configMembers
AddMembersEndReturn ==
    /\ pc = "addMembers"
    /\ idx > Len(config.members)
    /\ pc' = "listForOrg"
    /\ UNCHANGED <<inputs, team, liveMembers, grants, orgRepos, teamId,
                   memberLocals, repoLocals, idx, setFailed, resultOutput,
                   calls, warnings, attempted, observed,
                   dist, other>>

\* the loop over configMembers is through
AddMembersEnd ==
    /\ pc = "addMembers"
    /\ idx > Len(config.members)
    /\ pc' = "removeMembers"
    /\ idx' = 1
    /\ dist' = DistLoopEnd(dist, "add", "remove")
    /\ UNCHANGED <<inputs, team, liveMembers, grants, orgRepos, teamId,
                   memberLocals, repoLocals, setFailed, resultOutput, calls,
                   warnings, attempted, observed,
                   other>>

\* the loop over currentMemberLogins without the inner try/catch, as in
\* the compiled dist/main.js, lines 141-150: a failed remove ends the run
RemoveMemberAbort ==
    /\ pc = "removeMembers"
    /\ idx <= Len(currentMemberLogins)
    /\ LET member == currentMemberLogins[idx] IN
       \/ /\ Includes(config.members, member)
          /\ idx' = idx + 1
          /\ UNCHANGED <<liveMembers, calls, warnings, pc, setFailed>>
       \/ /\ ~Includes(config.members, member)
          /\ Log(Call("removeMembershipForUserInOrg", member, <<>>, "",
                      "ok"))
          /\ liveMembers' = liveMembers \ {member}
          /\ idx' = idx + 1
          /\ UNCHANGED <<warnings, pc, setFailed>>
       \/ /\ ~Includes(config.members, member)
          /\ \E error \in Thrown :
                 /\ Log(Call("removeMembershipForUserInOrg", member, <<>>,
                             "", "failed"))
                 /\ RunCatch(error)
          /\ UNCHANGED <<liveMembers, warnings, idx>>
    /\ UNCHANGED <<inputs, team, grants, orgRepos, teamId, memberLocals,
                   repoLocals, resultOutput, attempted, observed,
                   dist, other>>

\* one iteration of the loop over currentMemberLogins, lines 145-158
RemoveMember ==
    /\ pc = "removeMembers"
    /\ idx <= Len(currentMemberLogins)
    /\ LET member == currentMemberLogins[idx] IN
       \/ /\ Includes(config.members, member)
          /\ UNCHANGED <<liveMembers, calls, warnings, dist>>
       \/ /\ ~Includes(config.members, member)
          /\ Log(Call("removeMembershipForUserInOrg", member, <<>>, "",
                      "ok"))
          /\ liveMembers' = liveMembers \ {member}
          /\ dist' = DistRemove(dist, member, config.members, "ok")
          /\ UNCHANGED warnings
       \/ /\ ~Includes(config.members, member)
          /\ \E error \in Thrown :
                 Log(Call("removeMembershipForUserInOrg", member, <<>>,
                          "", "failed"))
          /\ warnings' = Append(warnings, <<"remove", member>>)
          /\ dist' = DistRemove(dist, member, config.members, "failed")
          /\ UNCHANGED liveMembers
    /\ idx' = idx + 1
    /\ UNCHANGED <<inputs, team, grants, orgRepos, pc, teamId, memberLocals,
                   repoLocals, setFailed, resultOutput, attempted, observed,
                   other>>

\* the loop over currentMemberLogins is through: syncTeamMembers returns
RemoveMembersEnd ==
    /\ pc = "removeMembers"
    /\ idx > Len(currentMemberLogins)
    /\ pc' = "listForOrg"
    /\ dist' = DistLoopEnd(dist, "remove", "completed")
    /\ UNCHANGED <<inputs, team, liveMembers, grants, orgRepos, teamId,
                   memberLocals, repoLocals, idx, setFailed, resultOutput,
                   calls, warnings, attempted, observed,
                   other>>

(***************************************************************************)
(* syncTeamRepositories, lines 165-217.  The organisation's list is        *)
(* paginated, the team's is not.  No call of the loop has a try/catch.     *)
(***************************************************************************)
\* an inventory that also holds the repositories the team has grants on
ListForOrgAndTeam ==
    /\ pc = "listForOrg"
    /\ Log(Call("listForOrg", "", <<>>, "", "ok"))
    /\ allRepos' = orgRepos \o
           SelectSeq(GrantNames(grants), LAMBDA r : ~Includes(orgRepos, r))
    /\ pc' = "listReposInOrg"
    /\ UNCHANGED <<inputs, team, liveMembers, grants, orgRepos, teamId,
                   memberLocals, currentRepoNames, repoName,
                   shouldHaveAccess, permission, idx, warnings, attempted,
                   observed, setFailed, resultOutput,
                   dist, other>>

ListForOrg ==
    /\ pc = "listForOrg"
    /\ \/ /\ Log(Call("listForOrg", "", <<>>, "", "ok"))
          /\ allRepos' = orgRepos
          /\ pc' = "listReposInOrg"
          /\ UNCHANGED <<setFailed, resultOutput>>
       \/ \E error \in Thrown :
              /\ Log(Call("listForOrg", "", <<>>, "", "failed"))
              /\ RunCatch(error)
              /\ UNCHANGED allRepos
    /\ UNCHANGED <<inputs, team, liveMembers, grants, orgRepos, teamId,
                   memberLocals, currentRepoNames, repoName,
                   shouldHaveAccess, permission, idx, warnings, attempted,
                   observed,
                   dist, other>>

ListReposInOrg ==
    /\ pc = "listReposInOrg"
    /\ \/ /\ Log(Call("listReposInOrg", "", <<>>, "", "ok"))
          /\ currentRepoNames' = FirstPage(GrantNames(grants))
          /\ idx' = 1
          /\ pc' = "repositories"
          /\ UNCHANGED <<setFailed, resultOutput>>
       \/ \E error \in Thrown :
              /\ Log(Call("listReposInOrg", "", <<>>, "", "failed"))
              /\ RunCatch(error)
              /\ UNCHANGED <<currentRepoNames, idx>>
    /\ UNCHANGED <<inputs, team, liveMembers, grants, orgRepos, teamId,
                   memberLocals, allRepos, repoName, shouldHaveAccess,
                   permission, warnings, attempted, observed,
                   dist, other>>

\* a JavaScript value that counts as true in a condition
Truthy(v) == v \notin {Undefined, ""}

\* one iteration of the loop over allRepos, lines 180-216
RepoIteration ==
    /\ pc = "repositories"
    /\ idx <= Len(allRepos)
    /\ LET name == allRepos[idx]
           access == RepoAccess(name, config.repositories)
           listed == Includes(currentRepoNames, name)
           wanted == access.shouldHaveAccess /\ Truthy(access.permission)
       IN
       /\ repoName' = name
       /\ shouldHaveAccess' = access.shouldHaveAccess
       /\ permission' = access.permission
       /\ \/ /\ (wanted /\ listed) \/ (~wanted /\ ~listed)
             /\ idx' = idx + 1
             /\ UNCHANGED <<grants, calls, pc, setFailed>>
          \/ /\ wanted /\ ~listed
             /\ Log(Call("addOrUpdateRepoPermissionsInOrg", "", name,
                         access.permission, "ok"))
             /\ grants' = AddOrUpdateGrant(grants, name, access.permission)
             /\ idx' = idx + 1
             /\ UNCHANGED <<pc, setFailed>>
          \/ /\ wanted /\ ~listed
             /\ \E error \in Thrown :
                    /\ Log(Call("addOrUpdateRepoPermissionsInOrg", "", name,
                                access.permission, "failed"))
                    /\ RunCatch(error)
             /\ UNCHANGED <<grants, idx>>
          \/ /\ ~wanted /\ listed
             /\ Log(Call("removeRepoInOrg", "", name, "", "ok"))
             /\ grants' = RemoveGrant(grants, name)
             /\ idx' = idx + 1
             /\ UNCHANGED <<pc, setFailed>>
          \/ /\ ~wanted /\ listed
             /\ \E error \in Thrown :
                    /\ Log(Call("removeRepoInOrg", "", name, "", "failed"))
                    /\ RunCatch(error)
             /\ UNCHANGED <<grants, idx>>
    /\ UNCHANGED <<inputs, team, liveMembers, orgRepos, teamId, memberLocals,
                   allRepos, currentRepoNames, resultOutput, warnings,
                   attempted, observed,
                   dist, other>>

\* the loop over allRepos is through: syncTeam returns and run() sets the
\* 'result' output
RepositoriesEnd ==
    /\ pc = "repositories"
    /\ idx > Len(allRepos)
    /\ resultOutput' = TRUE
    /\ pc' = "done"
    /\ UNCHANGED <<inputs, team, liveMembers, grants, orgRepos, teamId,
                   memberLocals, repoLocals, idx, setFailed, calls, warnings,
                   attempted, observed,
                   dist, other>>

(***************************************************************************)
(* The workflow invokes the action again after a run that completed and in *)
(* which no call failed: a new process, the same document, the remote      *)
(* state as that run left it.                                              *)
(***************************************************************************)
Snapshot == [team |-> team, liveMembers |-> liveMembers, grants |-> grants]

Rerun ==
    /\ pc = "done"
    /\ resultOutput
    /\ NoFailedCall
    /\ runs < MaxRuns
    /\ runs' = runs + 1
    /\ before' = Snapshot
    /\ pc' = "readConfig"
    /\ teamId' = 0
    /\ currentMemberLogins' = <<>>
    /\ allRepos' = <<>>
    /\ currentRepoNames' = <<>>
    /\ idx' = 1
    /\ repoName' = <<>>
    /\ shouldHaveAccess' = FALSE
    /\ permission' = Undefined
    /\ setFailed' = FALSE
    /\ resultOutput' = FALSE
    /\ calls' = <<>>
    /\ warnings' = <<>>
    /\ attempted' = {}
    /\ dist' = DistIdle
    /\ UNCHANGED <<inputs, team, liveMembers, grants, orgRepos, other>>

(***************************************************************************)
(* Two runs of the action at the same time, for two documents and two      *)
(* teams of one organization.  A run is suspended at an await and the      *)
(* other goes on; the variables hold the run that is going on and its      *)
(* team, and other holds the suspended run and its team.  Every call names *)
(* the team of the run that issues it; the two runs share the              *)
(* organization's repository list.                                         *)
(***************************************************************************)
\* no second run
NoProcess == [pc |-> "none"]

\* the run that is going on, as it is suspended
Suspended ==
    [config |-> config, configPath |-> configPath, numDocs |-> numDocs,
     team |-> team, liveMembers |-> liveMembers, grants |-> grants,
     pc |-> pc, teamId |-> teamId,
     currentMemberLogins |-> currentMemberLogins, allRepos |-> allRepos,
     currentRepoNames |-> currentRepoNames, idx |-> idx,
     repoName |-> repoName, shouldHaveAccess |-> shouldHaveAccess,
     permission |-> permission, setFailed |-> setFailed,
     resultOutput |-> resultOutput, calls |-> calls, warnings |-> warnings,
     attempted |-> attempted, before |-> before, runs |-> runs,
     dist |-> dist]

\* a suspended run goes on
Resume(run) ==
    /\ config' = run.config
    /\ configPath' = run.configPath
    /\ numDocs' = run.numDocs
    /\ team' = run.team
    /\ liveMembers' = run.liveMembers
    /\ grants' = run.grants
    /\ pc' = run.pc
    /\ teamId' = run.teamId
    /\ currentMemberLogins' = run.currentMemberLogins
    /\ allRepos' = run.allRepos
    /\ currentRepoNames' = run.currentRepoNames
    /\ idx' = run.idx
    /\ repoName' = run.repoName
    /\ shouldHaveAccess' = run.shouldHaveAccess
    /\ permission' = run.permission
    /\ setFailed' = run.setFailed
    /\ resultOutput' = run.resultOutput
    /\ calls' = run.calls
    /\ warnings' = run.warnings
    /\ attempted' = run.attempted
    /\ before' = run.before
    /\ runs' = run.runs
    /\ dist' = run.dist

\* whether a run was suspended between two of its steps
Midway == pc \notin {"readConfig", "done"}

\* two runs whose calls name one and the same team
SwitchSameTeam ==
    /\ other # NoProcess
    /\ other.pc # "done"
    /\ Resume([other.run EXCEPT !.liveMembers = liveMembers,
                                !.grants = grants])
    /\ other' = [run |-> Suspended, midway |-> other.peerMidway \/ Midway,
                 peerMidway |-> other.midway, pc |-> pc]
    /\ UNCHANGED orgRepos

\* the run that is going on awaits, the suspended run goes on
Switch ==
    /\ other # NoProcess
    /\ other.pc # "done"
    /\ Resume(other.run)
    /\ other' = [run |-> Suspended, midway |-> other.peerMidway \/ Midway,
                 peerMidway |-> other.midway, pc |-> pc]
    /\ UNCHANGED orgRepos

Next ==
    \/ ReadConfig
    \/ ValidateConfig
    \/ GetByName
    \/ UpdateInOrg
    \/ CreateTeam
    \/ ListMembersInOrg
    \/ AddMember
    \/ AddMembersEnd
    \/ RemoveMember
    \/ RemoveMembersEnd
    \/ ListForOrg
    \/ ListReposInOrg
    \/ RepoIteration
    \/ RepositoriesEnd
    \/ Rerun

(***************************************************************************)
(* Initial states: the process has started, nothing is read yet.  The      *)
(* documents and remote states are drawn in families, each varying what    *)
(* one reconciler reads and holding the rest at one typical value.         *)
(***************************************************************************)
Rule(pattern, perm) == [pattern |-> pattern, permission |-> perm]

Document(name, description, privacy, members, repositories) ==
    [name |-> name, slug |-> "eng-team", description |-> description,
     privacy |-> privacy, members |-> members, repositories |-> repositories]

ExistingTeam(name, description, privacy) ==
    [exists |-> TRUE, id |-> 1, name |-> name, description |-> description,
     privacy |-> privacy]

File(n) == [isDir |-> FALSE, file |-> n]
Directory == [isDir |-> TRUE, file |-> 0]

\* rule lists a JSON object can declare: no key twice
RuleLists(patterns, n) ==
    {r \in SeqsUpTo([pattern : patterns, permission : Permissions], n) :
        \A x, y \in DOMAIN r : x # y => r[x].pattern # r[y].pattern}

\* grant lists over the repositories of RepoOrder
GrantLists ==
    {SelectSeq([n \in DOMAIN RepoOrder |->
                   [repo |-> RepoOrder[n], permission |-> f[n]]],
               LAMBDA e : e.permission # "none") :
        f \in [DOMAIN RepoOrder -> Permissions \cup {"none"}]}

Strings(n) == SeqsUpTo(Alphabet, n)

InitLocals ==
    /\ pc = "readConfig"
    /\ teamId = 0
    /\ currentMemberLogins = <<>>
    /\ allRepos = <<>>
    /\ currentRepoNames = <<>>
    /\ idx = 1
    /\ repoName = <<>>
    /\ shouldHaveAccess = FALSE
    /\ permission = Undefined
    /\ setFailed = FALSE
    /\ resultOutput = FALSE
    /\ calls = <<>>
    /\ warnings = <<>>
    /\ attempted = {}
    /\ runs = 1
    /\ before = Snapshot
    /\ dist = DistIdle

\* the team's attributes vary
InitTeam ==
    /\ numDocs = 1
    /\ configPath = File(1)
    /\ config \in {Document("Engineering", d, p, <<"a">>,
                            <<Rule(<<"*">>, "pull")>>) :
                      d \in {Undefined, "d1"},
                      p \in {Undefined, "secret", "closed"}}
    /\ team \in {NoTeam} \cup
                {ExistingTeam(n, d, p) :
                    n \in {"Engineering", "Old"},
                    d \in {NoDescription, "d0", "d1"},
                    p \in {"secret", "closed"}}
    /\ liveMembers \in IF team.exists THEN {{}, {"b"}} ELSE {{}}
    /\ grants = <<>>
    /\ orgRepos = << <<"a">> >>

\* the configured and the live members vary
InitMembers ==
    /\ numDocs = 1
    /\ configPath = File(1)
    /\ config \in {Document("Engineering", "d1", "closed", m,
                            <<Rule(<<"a">>, "pull")>>) :
                      m \in SeqsUpTo(Identities, MaxMembers)}
    /\ team = ExistingTeam("Engineering", "d1", "closed")
    /\ liveMembers \in SUBSET Identities
    /\ grants = <<[repo |-> <<"1">>, permission |-> "pull"]>>
    /\ orgRepos = << <<"a">>, <<"1">> >>

\* logins that differ in case only
InitCase ==
    /\ numDocs = 1
    /\ configPath = File(1)
    /\ config \in {Document("Engineering", "d1", "closed", m,
                            <<Rule(<<"a">>, "pull")>>) :
                      m \in {<<"A">>, <<"A", "b">>}}
    /\ team = ExistingTeam("Engineering", "d1", "closed")
    /\ liveMembers \in {{}, {"a"}, {"A"}, {"a", "b"}}
    /\ grants = <<>>
    /\ orgRepos = << <<"a">> >>

\* the rules, the inventory and the team's grants vary
InitRepos ==
    /\ numDocs = 1
    /\ configPath = File(1)
    /\ config \in {Document("Engineering", "d1", "closed", <<"a">>, r) :
                      r \in RuleLists(RulePatterns, MaxRules)}
    /\ team = ExistingTeam("Engineering", "d1", "closed")
    /\ liveMembers = {"a"}
    /\ grants \in GrantLists
    /\ orgRepos \in {RepoOrder, SubSeq(RepoOrder, 1, 2)}

\* the configuration directory and the config-path input vary; a document
\* may lack its name
InitDocs ==
    /\ numDocs \in 1..MaxDocs
    /\ configPath \in {Directory} \cup {File(n) : n \in 1..numDocs}
    /\ config \in {Document(n, Undefined, Undefined, <<"a">>,
                            <<Rule(<<"*">>, "pull")>>) :
                      n \in {"Engineering", Undefined}}
    /\ team \in {NoTeam, ExistingTeam("Engineering", NoDescription, "closed")}
    /\ liveMembers = {}
    /\ grants = <<>>
    /\ orgRepos = << <<"a">> >>

\* one rule and one repository, over every pattern and every name
InitMatch ==
    /\ numDocs = 1
    /\ configPath = File(1)
    /\ config \in {Document("Engineering", "d1", "closed", <<"a">>,
                            <<Rule(p, "pull")>>) : p \in Strings(MaxLen)}
    /\ team = ExistingTeam("Engineering", "d1", "closed")
    /\ liveMembers = {"b"}
    /\ grants = <<>>
    /\ orgRepos \in {<<n>> : n \in Strings(MaxLen)}
    /\ InitLocals
    /\ other = NoProcess

Init ==
    /\ InitTeam \/ InitMembers \/ InitCase \/ InitRepos \/ InitDocs
    /\ InitLocals
    /\ other = NoProcess

Spec == Init /\ [][Next]_vars

\* a run about to start, for a document and the state of its team
Starting(c, t, members, g) ==
    [config |-> c, configPath |-> File(1), numDocs |-> 1,
     team |-> t, liveMembers |-> members, grants |-> g,
     pc |-> "readConfig", teamId |-> 0,
     currentMemberLogins |-> <<>>, allRepos |-> <<>>,
     currentRepoNames |-> <<>>, idx |-> 1,
     repoName |-> <<>>, shouldHaveAccess |-> FALSE,
     permission |-> Undefined, setFailed |-> FALSE,
     resultOutput |-> FALSE, calls |-> <<>>, warnings |-> <<>>,
     attempted |-> {},
     before |-> [team |-> t, liveMembers |-> members, grants |-> g],
     runs |-> 1, dist |-> DistIdle]

\* the second document and its team
Operations ==
    [Document("Operations", Undefined, Undefined, <<"b", "c">>,
              <<Rule(<<"*">>, "admin")>>) EXCEPT !.slug = "ops-team"]
OperationsTeam == [ExistingTeam("Ops", "d0", "closed") EXCEPT !.id = 3]

\* two runs start: one for team Engineering, which exists, and one for
\* team Operations, which may exist
InitPair ==
    /\ numDocs = 1
    /\ configPath = File(1)
    /\ config = Document("Engineering", "d1", "closed", <<"a">>,
                         <<Rule(<<"a", "*">>, "pull")>>)
    /\ team = ExistingTeam("Engineering", "d0", "secret")
    /\ liveMembers \in {{"b"}, {"a", "b"}}
    /\ grants = <<[repo |-> <<"1">>, permission |-> "pull"]>>
    /\ orgRepos = << <<"a">>, <<"1">> >>
    /\ InitLocals
    /\ \E run \in {Starting(Operations, NoTeam, {}, <<>>),
                    Starting(Operations, OperationsTeam, {"a"},
                             <<[repo |-> <<"a">>, permission |-> "pull"]>>)} :
           other = [run |-> run, midway |-> FALSE, peerMidway |-> FALSE,
                    pc |-> run.pc]

NextPair ==
    \/ ReadConfig
    \/ ValidateConfig
    \/ GetByName
    \/ UpdateInOrg
    \/ CreateTeam
    \/ ListMembersInOrg
    \/ AddMember
    \/ AddMembersEnd
    \/ RemoveMember
    \/ RemoveMembersEnd
    \/ ListForOrg
    \/ ListReposInOrg
    \/ RepoIteration
    \/ RepositoriesEnd
    \/ Switch

SpecPair == InitPair /\ [][NextPair]_vars

SpecMatch == InitMatch /\ [][Next]_vars

(***************************************************************************)
(* Vocabulary of the properties.                                           *)
(***************************************************************************)
AddOp == "addOrUpdateMembershipForUserInOrg"
RemoveOp == "removeMembershipForUserInOrg"
GrantOp == "addOrUpdateRepoPermissionsInOrg"
RevokeOp == "removeRepoInOrg"

Desired == Range(config.members)
Inventory == Range(orgRepos)

\* syncTeamMembers has just returned
MembersSynced == pc = "listForOrg"
\* the run went through syncTeamRepositories and no remote call failed
CleanRun == pc = "done" /\ resultOutput /\ NoFailedCall

\* positions of the document's rules, in declaration order, that match
MatchingRules(name) ==
    {n \in DOMAIN config.repositories :
        matchRepoPattern(name, config.repositories[n].pattern)}
Matched(name) == MatchingRules(name) # {}
Least(S) == CHOOSE n \in S : \A m \in S : n <= m
\* the permission of the first matching rule in declaration order
DeclaredPermission(name) ==
    config.repositories[Least(MatchingRules(name))].permission
\* the permission of the first matching rule in Object.entries order
EnumeratedPermission(name) ==
    LET entries == ObjectEntries(config.repositories)
        hits == {n \in DOMAIN entries :
                    matchRepoPattern(name, entries[n].pattern)}
    IN  entries[Least(hits)].permission

CallsOf(ops) == {n \in DOMAIN calls : calls[n].op \in ops}

\* the loop over allRepos has gone through its first iteration
FirstRepoDone ==
    /\ \E n \in CallsOf({"listReposInOrg"}) : calls[n].result = "ok"
    /\ idx > 1

(***************************************************************************)
(* C1.  When no remote call fails, the team's live member set equals the   *)
(* set of the configured members once syncTeamMembers has returned.        *)
(* Fails: the member list the code diffs against is one page (C21).        *)
(***************************************************************************)
C1_LiveEqualsDesired ==
    (MembersSynced /\ NoFailedCall) => liveMembers = Desired

\* the scenario of the specification: desired a, b; live b, c; ends a, b
C1_Scenario ==
    /\ MembersSynced /\ NoFailedCall
    /\ config.members = <<"a", "b">>
    /\ before.liveMembers = {"b", "c"}
    /\ liveMembers = {"a", "b"}

(***************************************************************************)
(* C2.  When no remote call fails, after syncTeamRepositories every        *)
(* repository of the inventory has a grant if and only if some rule of the *)
(* document matches its name.  Fails: the team's grant list the code reads *)
(* is one page, so a grant beyond it is never revoked.                     *)
(***************************************************************************)
C2_GrantIffMatched ==
    CleanRun => \A r \in Inventory : HasGrant(grants, r) <=> Matched(r)

C4_TeamEqualsDocument ==
    pc = "listMembersInOrg" =>
        /\ team.name = config.name
        /\ team.description =
               IF config.description = Undefined THEN NoDescription
               ELSE config.description
        /\ team.privacy =
               IF config.privacy = Undefined THEN "closed" ELSE config.privacy

(***************************************************************************)
(* C5.  A run begins to process every document of the configuration        *)
(* directory.  Fails: run() reads config-path as one file.                 *)
(***************************************************************************)
C5_EveryDocumentAttempted ==
    pc = "done" => attempted = 1..numDocs

(***************************************************************************)
(* C6.  A run that follows a run without a failed call issues no add and   *)
(* no remove call.  Fails: the first run removed the strangers of the      *)
(* first page only, and the second run finds the next ones (C21).          *)
(***************************************************************************)
C6_SecondRunNoMutation ==
    (runs > 1 /\ MembersSynced /\ NoFailedCall) =>
        CallsOf({AddOp, RemoveOp}) = {}

(***************************************************************************)
(* C7.  A failed add or remove does not end syncTeamMembers: the run never *)
(* stops on one, and when syncTeamMembers has returned, every configured   *)
(* identity missing from the fetched list got an add call and every fetched*)
(* identity missing from the document a remove call, every identity whose  *)
(* add succeeded is a member and every one whose remove succeeded is not.  *)
(***************************************************************************)
C7_MemberFailuresIsolated ==
    /\ (pc = "done" /\ calls # <<>> /\ Failed(calls[Len(calls)])) =>
           calls[Len(calls)].op \notin {AddOp, RemoveOp}
    /\ MembersSynced =>
           /\ \A m \in Desired \ Range(currentMemberLogins) :
                  \E n \in CallsOf({AddOp}) : calls[n].user = m
           /\ \A m \in Range(currentMemberLogins) \ Desired :
                  \E n \in CallsOf({RemoveOp}) : calls[n].user = m
           /\ \A n \in CallsOf({AddOp}) :
                  calls[n].result = "ok" => calls[n].user \in liveMembers
           /\ \A n \in CallsOf({RemoveOp}) :
                  calls[n].result = "ok" => calls[n].user \notin liveMembers

\* adding one identity failed, then adding another and removing a third
\* succeeded
C7_Witness ==
    /\ MembersSynced
    /\ \E x, y \in CallsOf({AddOp}) :
           /\ x < y
           /\ Failed(calls[x])
           /\ calls[y].result = "ok"
           /\ calls[y].user # calls[x].user
           /\ calls[y].user \in liveMembers
           /\ calls[x].user \notin liveMembers
    /\ \E z \in CallsOf({RemoveOp}) :
           calls[z].result = "ok" /\ calls[z].user \notin liveMembers

(***************************************************************************)
(* C8.  The rule loop resolves a repository to the permission of the first *)
(* rule in declaration order that matches it, and to no access when none   *)
(* matches.  Fails: Object.entries puts integer-like keys first.           *)
(***************************************************************************)
C8_DeclarationOrderFirstMatch ==
    repoName # <<>> =>
        IF Matched(repoName)
        THEN shouldHaveAccess /\ permission = DeclaredPermission(repoName)
        ELSE ~shouldHaveAccess

\* the example of the specification: ("a*", pull) before ("a", admin)
\* resolves "a" to pull
C8_Example ==
    /\ repoName = <<"a">>
    /\ config.repositories =
           <<Rule(<<"a", "*">>, "pull"), Rule(<<"a">>, "admin")>>
    /\ shouldHaveAccess
    /\ permission = "pull"

(***************************************************************************)
(* C9.  matchRepoPattern(name, pattern) is true exactly when pattern is    *)
(* "*", or pattern ends in "*" and name is the rest of pattern followed by *)
(* anything, or name is pattern.  Checked on the one rule and the one      *)
(* repository of every run of SpecMatch, and on the names of the examples. *)
(***************************************************************************)
Web(rest) == <<"w", "e", "b">> \o rest
Frontend == <<"f", "r", "o", "n", "t", "e", "n", "d">>

ClaimedMatch(name, pattern) ==
    \/ pattern = <<"*">>
    \/ /\ pattern # <<>>
       /\ pattern[Len(pattern)] = "*"
       /\ \E k \in 0..Len(name) :
              name = Front(pattern) \o SubSeq(name, k + 1, Len(name))
    \/ name = pattern

C9_MatchRepoPattern ==
    /\ FirstRepoDone =>
           shouldHaveAccess =
               ClaimedMatch(allRepos[1], config.repositories[1].pattern)
    /\ matchRepoPattern(Web(<<"-", "a", "p", "i">>), Web(<<"-", "*">>))
    /\ ~matchRepoPattern(Web(<<>>), Web(<<"-", "*">>))
    /\ ~matchRepoPattern(Web(<<"h", "o", "o", "k", "s">>), Web(<<"-", "*">>))
    /\ matchRepoPattern(Frontend, Frontend)
    /\ ~matchRepoPattern(Frontend \o <<"2">>, Frontend)
    /\ ~matchRepoPattern(<<"a">> \o Frontend, Frontend)
    /\ ~matchRepoPattern(SliceLast(Frontend), Frontend)

\* a prefix pattern matched a longer name, and another name was refused
\* although the prefix occurs in it
C9_Witness ==
    /\ FirstRepoDone
    /\ config.repositories[1].pattern = <<"a", "*">>
    /\ allRepos = << <<"a", "1">> >>
    /\ shouldHaveAccess
    /\ ~matchRepoPattern(<<"1", "a">>, <<"a", "*">>)

(***************************************************************************)
(* C10.  A repository of the inventory that matches a rule and on which    *)
(* the team held a grant before the run gets no grant and no revoke call.  *)
(* Fails: a grant beyond the first page of the team's list is granted      *)
(* again, with the rule's permission.                                      *)
(***************************************************************************)
C10_ExistingGrantUntouched ==
    \A r \in Inventory :
        (Matched(r) /\ HasGrant(before.grants, r)) =>
            \A n \in CallsOf({GrantOp, RevokeOp}) : calls[n].repo # r

(***************************************************************************)
(* C11.  When no remote call fails, for every repository of the inventory  *)
(* that no rule matches: if the team held no grant on it, the run issues   *)
(* no call for it and it has no grant afterwards; if the team held a       *)
(* grant, the run issues a revoke for it and the grant is gone.  Fails: a  *)
(* grant beyond the first page of the team's list is not revoked (C2).     *)
(***************************************************************************)
C11_UnmatchedRevoked ==
    CleanRun =>
        \A r \in Inventory :
            ~Matched(r) =>
                /\ ~HasGrant(grants, r)
                /\ IF HasGrant(before.grants, r)
                   THEN \E n \in CallsOf({RevokeOp}) : calls[n].repo = r
                   ELSE \A n \in CallsOf({GrantOp, RevokeOp}) :
                            calls[n].repo # r

\* both cases in one clean run: an unmatched repository lost its grant and
\* another, without a grant, got no call
C11_Scenario ==
    /\ CleanRun
    /\ \E r \in Inventory :
           /\ ~Matched(r) /\ HasGrant(before.grants, r)
           /\ ~HasGrant(grants, r)
           /\ \E n \in CallsOf({RevokeOp}) : calls[n].repo = r
    /\ \E r \in Inventory :
           /\ ~Matched(r) /\ ~HasGrant(before.grants, r)
           /\ ~HasGrant(grants, r)

(***************************************************************************)
(* C12.  When no remote call fails, every repository of the inventory that *)
(* matches a rule and on which the team held no grant gets exactly one     *)
(* grant call, and this call carries the permission of the first matching  *)
(* rule in declaration order.  Fails: the rule loop visits integer-like    *)
(* patterns first (C8).                                                    *)
(***************************************************************************)
C12_OneGrantFirstRule ==
    CleanRun =>
        \A r \in Inventory :
            (Matched(r) /\ ~HasGrant(before.grants, r)) =>
                /\ Cardinality({n \in CallsOf({GrantOp}) :
                                   calls[n].repo = r}) = 1
                /\ \A n \in CallsOf({GrantOp}) :
                       calls[n].repo = r =>
                           calls[n].permission = DeclaredPermission(r)

\* the scenario of the specification: one rule "*", two repositories, no
\* grants; both are granted with the rule's permission
C12_Scenario ==
    /\ CleanRun
    /\ config.repositories = <<Rule(<<"*">>, "pull")>>
    /\ Len(orgRepos) = 2
    /\ before.grants = <<>>
    /\ Cardinality(CallsOf({GrantOp})) = 2
    /\ \A r \in Inventory :
           HasGrant(grants, r) /\ GrantOf(grants, r) = "pull"

(***************************************************************************)
(* C13.  A failed grant or revoke does not end syncTeamRepositories: the   *)
(* run never stops on one, and when the run is over every repository of   *)
(* the fetched inventory whose match disagrees with the fetched grant list *)
(* got its grant or revoke call.  Fails: the calls of the loop over        *)
(* allRepos have no try/catch, the first failure leaves loop and run.      *)
(***************************************************************************)
C13_RepoFailuresIsolated ==
    /\ (pc = "done" /\ calls # <<>> /\ Failed(calls[Len(calls)])) =>
           calls[Len(calls)].op \notin {GrantOp, RevokeOp}
    /\ (pc = "done" /\ FirstRepoDone) =>
           \A r \in Range(allRepos) :
               Matched(r) # Includes(currentRepoNames, r) =>
                   \E n \in CallsOf({GrantOp, RevokeOp}) : calls[n].repo = r

(***************************************************************************)
(* C14.  When the document has rules and every one of them is a wildcard   *)
(* pattern (it ends in "*"), the run issues no revoke call.  Fails: the    *)
(* loop revokes every listed grant on a repository that no rule matches,   *)
(* whatever the kind of the rules.                                         *)
(***************************************************************************)
OnlyWildcards ==
    /\ config.repositories # <<>>
    /\ \A n \in DOMAIN config.repositories :
           EndsWith(config.repositories[n].pattern, "*")

C14_WildcardsNeverRevoke == OnlyWildcards => CallsOf({RevokeOp}) = {}

(***************************************************************************)
(* C15.  When the list of the team's members fails, the run issues no      *)
(* member call and no repository call; when the list of the organization's *)
(* repositories or of the team's repositories fails, it issues no grant    *)
(* and no revoke; in both cases syncTeam is left by the thrown value, the  *)
(* run does not report success and is marked failed.  Fails: run() marks   *)
(* the run failed only for a thrown value that is an Error (C22).          *)
(***************************************************************************)
FailedCallOf(ops) == \E n \in CallsOf(ops) : Failed(calls[n])
MemberListOp == "listMembersInOrg"
RepoListOps == {"listForOrg", "listReposInOrg"}
Propagated == pc = "done" /\ ~resultOutput

C15_BulkFetchFatal ==
    /\ FailedCallOf({MemberListOp}) =>
           /\ CallsOf({AddOp, RemoveOp, GrantOp, RevokeOp} \cup RepoListOps)
                  = {}
           /\ Propagated
           /\ setFailed
    /\ FailedCallOf(RepoListOps) =>
           /\ CallsOf({GrantOp, RevokeOp}) = {}
           /\ Propagated
           /\ setFailed

\* the list of the team's repositories threw an Error after the member
\* step had changed the team: no grant, no revoke, the run is marked failed
C15_Scenario ==
    /\ FailedCallOf({"listReposInOrg"})
    /\ CallsOf({AddOp}) # {}
    /\ CallsOf({GrantOp, RevokeOp}) = {}
    /\ \E r \in Inventory : Matched(r) /\ ~HasGrant(grants, r)
    /\ Propagated
    /\ setFailed

(***************************************************************************)
(* C16.  When the lookup of the team fails with an error other than        *)
(* not-found, the run issues no other call (no create, no update, no       *)
(* member call, no repository call) and the thrown value leaves syncTeam.  *)
(***************************************************************************)
C16_LookupFailureFatal ==
    FailedCallOf({"getByName"}) => (Len(calls) = 1 /\ Propagated)

\* the lookup failed for a team that exists and whose members and grants
\* differ from the document's
C16_Witness ==
    /\ FailedCallOf({"getByName"})
    /\ Len(calls) = 1
    /\ Propagated
    /\ team.exists
    /\ liveMembers # Desired

(***************************************************************************)
(* C17.  syncTeamMembers issues add calls for the configured identities    *)
(* that are not in the fetched member list and for no others, and remove   *)
(* calls for the fetched identities that are not configured and for no     *)
(* others; identities are equal when their strings are, so "A" and "a" are *)
(* two; an identity both configured and fetched gets no call.              *)
(***************************************************************************)
Fetched == Range(currentMemberLogins)
UsersOf(ops) == {calls[n].user : n \in CallsOf(ops)}

C17_CallsAreTheDifferences ==
    /\ UsersOf({AddOp}) \subseteq Desired \ Fetched
    /\ UsersOf({RemoveOp}) \subseteq Fetched \ Desired
    /\ MembersSynced =>
           /\ UsersOf({AddOp}) = Desired \ Fetched
           /\ UsersOf({RemoveOp}) = Fetched \ Desired

\* "A" is configured and "a" is fetched: "A" is added and "a" removed, and
\* "b", configured and fetched, gets no call
C17_Witness ==
    /\ MembersSynced
    /\ config.members = <<"A", "b">>
    /\ Fetched = {"a", "b"}
    /\ UsersOf({AddOp}) = {"A"}
    /\ UsersOf({RemoveOp}) = {"a"}

(***************************************************************************)
(* C18.  In syncTeamMembers every add call comes before every remove call, *)
(* and by the first remove call every add the member diff calls for has    *)
(* been issued, whether adds failed or not; so when the document lists a   *)
(* member and no add failed, the team is not left without members: a team  *)
(* that had members at the start of the run has some in every state, and   *)
(* any team has some once the add loop is through.                         *)
(***************************************************************************)
C18_AddsBeforeRemoves ==
    /\ \A x \in CallsOf({AddOp}), y \in CallsOf({RemoveOp}) : x < y
    /\ CallsOf({RemoveOp}) # {} => UsersOf({AddOp}) = Desired \ Fetched
    /\ ( /\ Desired # {}
         /\ ~FailedCallOf({AddOp})
         /\ \/ before.liveMembers # {}
            \/ pc \in {"removeMembers", "listForOrg"} )
           => liveMembers # {}

\* every member the team had is a stranger to the document: the configured
\* ones were added, one of the adds failing, before the first was removed
C18_Witness ==
    /\ MembersSynced
    /\ before.liveMembers # {}
    /\ before.liveMembers \cap Desired = {}
    /\ Cardinality(CallsOf({AddOp})) = 2
    /\ FailedCallOf({AddOp})
    /\ UsersOf({RemoveOp}) = before.liveMembers
    /\ liveMembers # {}
    /\ liveMembers \subseteq Desired

(***************************************************************************)
(* C19.  When the lookup finds the team, createOrUpdateTeam issues one     *)
(* update call and never a create call, and returns the handle of the team *)
(* found; when the lookup reports not-found, it issues one create call and *)
(* never an update call, and returns the handle of the team created.       *)
(* Fails: an update that fails with status 404 is followed by a create     *)
(* call (C24).                                                             *)
(***************************************************************************)
LookupResult(result) ==
    \E n \in CallsOf({"getByName"}) : calls[n].result = result
\* createOrUpdateTeam has returned
Upserted ==
    pc \in {"listMembersInOrg", "addMembers", "removeMembers", "listForOrg",
            "listReposInOrg", "repositories"}

C19_UpdateOrCreate ==
    /\ LookupResult("ok") =>
           /\ CallsOf({"create"}) = {}
           /\ Cardinality(CallsOf({"updateInOrg"})) <= 1
           /\ Upserted =>
                  /\ Cardinality(CallsOf({"updateInOrg"})) = 1
                  /\ teamId = before.team.id
    /\ LookupResult("NotFound") =>
           /\ CallsOf({"updateInOrg"}) = {}
           /\ Cardinality(CallsOf({"create"})) <= 1
           /\ Upserted =>
                  /\ Cardinality(CallsOf({"create"})) = 1
                  /\ ~before.team.exists
                  /\ teamId = team.id

\* the team found has the document's values already: one update call, no
\* create call, the handle is the one of the team found
C19_Scenario ==
    /\ pc = "listMembersInOrg"
    /\ LookupResult("ok")
    /\ before.team = team
    /\ Cardinality(CallsOf({"updateInOrg"})) = 1
    /\ CallsOf({"create"}) = {}
    /\ teamId = before.team.id

(***************************************************************************)
(* C20.  The three steps of syncTeam run one after the other: every member *)
(* call (list, add, remove) comes after an update or create call that      *)
(* succeeded, and every repository call (the two lists, grant, revoke)     *)
(* comes after all member calls, when the member list was fetched and      *)
(* every add and remove of the member diff has been issued.                *)
(***************************************************************************)
UpsertOps == {"updateInOrg", "create"}
MemberOps == {MemberListOp, AddOp, RemoveOp}
RepoOps == RepoListOps \cup {GrantOp, RevokeOp}

C20_StepsSequential ==
    /\ \A m \in CallsOf(MemberOps) :
           \E u \in CallsOf(UpsertOps) : u < m /\ calls[u].result = "ok"
    /\ \A r \in CallsOf(RepoOps) :
           /\ \A m \in CallsOf(MemberOps) : m < r
           /\ \E l \in CallsOf({MemberListOp}) : calls[l].result = "ok"
           /\ UsersOf({AddOp}) = Desired \ Fetched
           /\ UsersOf({RemoveOp}) = Fetched \ Desired

\* a run with calls of all three steps: the team was created, a member
\* added, a repository granted
C20_Witness ==
    /\ pc = "done"
    /\ \E n \in CallsOf({"create"}) : calls[n].result = "ok"
    /\ CallsOf({AddOp}) # {}
    /\ CallsOf({GrantOp}) # {}

(***************************************************************************)
(* C21.  The member list syncTeamMembers compares the document with is the *)
(* team's whole member set: every member the team had that the document    *)
(* does not list gets a remove call, and no add call names an identity     *)
(* that was a member already.  Fails: the list call returns one page.      *)
(***************************************************************************)
C21_WholeMemberList ==
    /\ pc \in {"addMembers", "removeMembers", "listForOrg"} =>
           Fetched = before.liveMembers
    /\ UsersOf({AddOp}) \cap before.liveMembers = {}
    /\ MembersSynced => before.liveMembers \ Desired \subseteq UsersOf({RemoveOp})

(***************************************************************************)
(* C22.  Every run ends in exactly one of two outcomes: the run is marked  *)
(* failed and the 'result' output is not set, when reading, validation or  *)
(* syncTeam threw any value; the 'result' output is set and the run is not *)
(* marked failed, when nothing was thrown.  Fails: run() marks the run     *)
(* failed only for a thrown value that is an Error.                        *)
(***************************************************************************)
C22_OneOutcome == pc = "done" => (setFailed # resultOutput)

\* the two outcomes occur: a run that threw an Error is marked failed
C22_Scenario ==
    /\ pc = "done"
    /\ FailedCallOf({GrantOp})
    /\ setFailed
    /\ ~resultOutput

(***************************************************************************)
(* C23.  Failed add and remove calls do not fail the document: a run never *)
(* ends on one, and a run in which only add and remove calls failed goes   *)
(* through the repository step, sets the 'result' output and is not marked *)
(* failed.                                                                 *)
(***************************************************************************)
OnlyMemberCallsFailed ==
    \A n \in DOMAIN calls :
        Failed(calls[n]) => calls[n].op \in {AddOp, RemoveOp}

C23_MemberFailuresNonFatal ==
    /\ (calls # <<>> /\ Failed(calls[Len(calls)])
           /\ calls[Len(calls)].op \in {AddOp, RemoveOp}) => pc # "done"
    /\ (pc = "done" /\ FailedCallOf({AddOp, RemoveOp})
           /\ OnlyMemberCallsFailed) =>
           /\ resultOutput
           /\ ~setFailed
           /\ \E n \in CallsOf({"listReposInOrg"}) : calls[n].result = "ok"
           /\ \A r \in Inventory :
                  Matched(r) # Includes(currentRepoNames, r) =>
                      \E n \in CallsOf({GrantOp, RevokeOp}) :
                          calls[n].repo = r

\* an add and a remove failed; the run granted a repository and reports
\* success
C23_Witness ==
    /\ pc = "done"
    /\ FailedCallOf({AddOp})
    /\ FailedCallOf({RemoveOp})
    /\ \E n \in CallsOf({GrantOp}) : calls[n].result = "ok"
    /\ resultOutput
    /\ ~setFailed

(***************************************************************************)
(* C24.  A create call is issued only after a lookup that reported         *)
(* not-found; after a lookup that found the team, a failed update leaves   *)
(* createOrUpdateTeam without a create call.  Fails: the catch block that  *)
(* creates the team also catches the update's error.                       *)
(***************************************************************************)
C24_CreateOnlyAfterNotFound ==
    /\ CallsOf({"create"}) # {} => LookupResult("NotFound")
    /\ FailedCallOf({"updateInOrg"}) =>
           (Propagated /\ calls[Len(calls)].op = "updateInOrg")

\* an update failed with an error that has no status 404: no create call,
\* the run is over
C24_Scenario ==
    /\ FailedCallOf({"updateInOrg"})
    /\ CallsOf({"create"}) = {}
    /\ Propagated

(***************************************************************************)
(* C25.  Every grant and revoke call names a repository of the             *)
(* organization's inventory, no repository is named by two such calls, and *)
(* a grant the team holds on a repository outside the inventory stays as   *)
(* it is.                                                                  *)
(***************************************************************************)
C25_OnlyInventoryTouched ==
    /\ \A n \in CallsOf({GrantOp, RevokeOp}) : calls[n].repo \in Inventory
    /\ \A x, y \in CallsOf({GrantOp, RevokeOp}) :
           calls[x].repo = calls[y].repo => x = y
    /\ \A n \in DOMAIN before.grants :
           before.grants[n].repo \notin Inventory =>
               /\ HasGrant(grants, before.grants[n].repo)
               /\ GrantOf(grants, before.grants[n].repo)
                      = before.grants[n].permission

\* the team holds a grant on a repository outside the inventory that no
\* rule matches; the run revoked another grant and left this one
C25_Witness ==
    /\ CleanRun
    /\ CallsOf({RevokeOp}) # {}
    /\ CallsOf({GrantOp}) # {}
    /\ \E n \in DOMAIN grants :
           /\ grants[n].repo \notin Inventory
           /\ ~Matched(grants[n].repo)

(***************************************************************************)
(* C27.  On the same document, the same list response and the same result  *)
(* for each call, syncTeamMembers of the compiled build issues the calls   *)
(* that the source's syncTeamMembers issues, in the same order, and ends   *)
(* as it does: it has thrown only when the source's has, and has completed *)
(* when the source's has.  Fails: the compiled build has no try/catch      *)
(* around its add and remove calls and throws where the source goes on.    *)
(***************************************************************************)
SourceMemberCalls == SelectSeq(calls, LAMBDA c : c.op \in MemberOps)
SourceThrown ==
    /\ pc = "done"
    /\ calls # <<>>
    /\ calls[Len(calls)].op \in MemberOps
    /\ Failed(calls[Len(calls)])

C27_BuildMatchesSource ==
    /\ dist.calls = SourceMemberCalls
    /\ dist.pc = "thrown" <=> SourceThrown
    /\ MembersSynced => dist.pc = "completed"

\* without a failing call the two builds issue the same adds and removes
\* and both complete
C27_Scenario ==
    /\ MembersSynced
    /\ dist.pc = "completed"
    /\ dist.calls = SourceMemberCalls
    /\ CallsOf({AddOp}) # {}
    /\ CallsOf({RemoveOp}) # {}

(***************************************************************************)
(* C26.  Two runs at the same time, for two documents and two teams, in    *)
(* any interleaving of their calls: when both are over and no call failed, *)
(* each team's attributes, members and grants are what the reconciliation  *)
(* of its document alone makes of the state the team had at the start.     *)
(* The runs in which one run is over before the other starts are among the *)
(* behaviours, so this result is the one of reconciling one after the      *)
(* other.                                                                  *)
(***************************************************************************)
\* createOrUpdateTeam on the team state b, no call failing
ReconciledTeam(b, c) ==
    IF b.team.exists THEN UpdatedTeam(b.team, c) ELSE CreatedTeam(c)

\* syncTeamMembers on the team state b, no call failing
ReconciledMembers(b, c) ==
    LET logins == FirstPage(SelectSeq(ListingOrder,
                                      LAMBDA m : m \in b.liveMembers))
    IN  (b.liveMembers
            \cup {m \in Range(c.members) : ~Includes(logins, m)})
            \ {m \in Range(logins) : ~Includes(c.members, m)}

\* the loop of syncTeamRepositories from repository k on, no call failing
RECURSIVE GrantsFrom(_, _, _, _, _)
GrantsFrom(g, names, inventory, rules, k) ==
    IF k > Len(inventory) THEN g
    ELSE LET name == inventory[k]
             access == RepoAccess(name, rules)
             wanted == access.shouldHaveAccess /\ Truthy(access.permission)
             listed == Includes(names, name)
         IN  GrantsFrom(IF wanted /\ ~listed
                        THEN AddOrUpdateGrant(g, name, access.permission)
                        ELSE IF ~wanted /\ listed THEN RemoveGrant(g, name)
                        ELSE g,
                        names, inventory, rules, k + 1)

\* syncTeamRepositories on the team state b, no call failing
ReconciledGrants(b, c) ==
    GrantsFrom(b.grants, FirstPage(GrantNames(b.grants)), orgRepos,
               c.repositories, 1)

CleanEnd(run) ==
    /\ run.pc = "done"
    /\ run.resultOutput
    /\ \A n \in DOMAIN run.calls : ~Failed(run.calls[n])

AsReconciledAlone(run) ==
    /\ run.team = ReconciledTeam(run.before, run.config)
    /\ run.liveMembers = ReconciledMembers(run.before, run.config)
    /\ run.grants = ReconciledGrants(run.before, run.config)

=============================================================================
